---- MODULE Spec2Model ----
(***************************************************************************)
(* Model of src/scrape.py: JikanScraper.scrape_page (retry loop),          *)
(* JikanScraper._extract_anime_data (record extractor) and                 *)
(* JikanScraper.scrape_range (page loop with the accumulator all_data).    *)
(***************************************************************************)
EXTENDS Integers, Sequences, FiniteSets, TLC

(* ------------------------------ bounds --------------------------------- *)
\* largest page number of a run
MaxPage == 3
\* how many items beyond 25 the largest response body carries
MaxOver == 1
\* longest 'titles' list of an item given to the extractor on its own
MaxTitles == 2
\* longest 'genres' list of an item given to the extractor on its own
MaxGenres == 2

(* ------------------------- program constants --------------------------- *)
\* scrape_page(self, page, max_retries = 3)
max_retries == 3
\* the literal 25 of reset_id = (page - 1) * 25 + index + 1
PageSize == 25

(* ------------------------- JSON / Python values ------------------------ *)
\* a key that the mapping does not have
Absent == [k |-> "absent"]
\* JSON null, Python None
Null == [k |-> "null"]
\* a key that is present with the value x (a number, a string or a list)
Val(x) == [k |-> "val", v |-> x]

\* d.get(key): the value, None when the key is absent
DictGet(field) == IF field.k = "val" THEN field ELSE Null

\* d.get(key, default): the default only when the key is absent; a key that
\* is present with null gives None
DictGetDefault(field, default) == IF field.k = "absent" THEN default ELSE field

\* a call that returned x / a call that raised the exception e
Ok(x) == [ok |-> TRUE, v |-> x]
Raise(e) == [ok |-> FALSE, err |-> e]

\* truth value of "if page_data:" -- None and the empty list are false
Truthy(x) == x.k = "val" /\ Len(x.v) > 0

(* --------------------------- the extractor ----------------------------- *)
\* next((title['title'] for title in titles if title.get('type') == 'Default'),
\*      fallback)
RECURSIVE NextDefaultTitle(_, _)
NextDefaultTitle(titles, fallback) ==
    IF titles = <<>> THEN Ok(fallback)
    ELSE LET title == Head(titles) IN
         IF title.type.k = "val" /\ title.type.v = "Default"
         THEN IF title.title.k = "absent"
              THEN Raise("KeyError")
              ELSE Ok(DictGet(title.title))
         ELSE NextDefaultTitle(Tail(titles), fallback)

\* a list back to front
Reverse(l) == [i \in 1..Len(l) |-> l[Len(l) + 1 - i]]

\* mutant of default_title: the last "Default" entry wins
default_title_last_match(anime) ==
    LET titles == DictGetDefault(anime.titles, Val(<<>>)) IN
    IF titles.k = "null"
    THEN Raise("TypeError")
    ELSE NextDefaultTitle(Reverse(titles.v), DictGet(anime.title))

\* default_title = next(... anime.get('titles', []) ..., anime.get('title'))
default_title(anime) ==
    LET titles == DictGetDefault(anime.titles, Val(<<>>)) IN
    IF titles.k = "null"
    THEN Raise("TypeError")
    ELSE NextDefaultTitle(titles.v, DictGet(anime.title))

\* [genre['name'] for genre in genres]
RECURSIVE GenreNames(_)
GenreNames(genres) ==
    IF genres = <<>> THEN Ok(<<>>)
    ELSE LET genre == Head(genres) IN
         IF genre.name.k = "absent"
         THEN Raise("KeyError")
         ELSE LET rest == GenreNames(Tail(genres)) IN
              IF rest.ok THEN Ok(<<genre.name>> \o rest.v) ELSE rest

\* ", ".join(names) for a list of strings
RECURSIVE Join(_)
Join(names) ==
    IF names = <<>> THEN ""
    ELSE IF Len(names) = 1 THEN names[1].v
    ELSE names[1].v \o ", " \o Join(Tail(names))

\* genre_list = [...]; genres_string = ", ".join(genre_list)
genres_string(anime) ==
    LET genres == DictGetDefault(anime.genres, Val(<<>>)) IN
    IF genres.k = "null"
    THEN Raise("TypeError")
    ELSE LET genre_list == GenreNames(genres.v) IN
         IF ~genre_list.ok THEN genre_list
         ELSE IF \E i \in 1..Len(genre_list.v) : genre_list.v[i].k = "null"
         THEN Raise("TypeError")
         ELSE Ok(Join(genre_list.v))

\* mutants of reset_id: the index counted without the + 1; the index left
\* out; the page not decremented
reset_id_zero_based(page, index) == (page - 1) * PageSize + index
reset_id_no_index(page, index) == (page - 1) * PageSize + 1
reset_id_page_not_decremented(page, index) == page * PageSize + index + 1

\* reset_id = (page - 1) * 25 + index + 1, index counted from 0
reset_id(page, index) == (page - 1) * PageSize + index + 1

\* one pass of the loop body: the record of one item, or the exception
anime_info(anime, page, index) ==
    LET t == default_title(anime)
        g == genres_string(anime)
    IN  IF ~t.ok THEN t
        ELSE IF ~g.ok THEN g
        ELSE Ok([id         |-> reset_id(page, index),
                 title      |-> t.v,
                 score      |-> DictGet(anime.score),
                 scored_by  |-> DictGet(anime.scored_by),
                 rank       |-> DictGet(anime.rank),
                 popularity |-> DictGet(anime.popularity),
                 members    |-> DictGet(anime.members),
                 favorites  |-> DictGet(anime.favorites),
                 genres     |-> g.v])

\* for index, anime in enumerate(data): ... scraped_data.append(anime_info)
RECURSIVE ExtractLoop(_, _, _, _)
ExtractLoop(data, page, index, scraped_data) ==
    IF index = Len(data) THEN Ok(scraped_data)
    ELSE LET r == anime_info(data[index + 1], page, index) IN
         IF r.ok
         THEN ExtractLoop(data, page, index + 1, Append(scraped_data, r.v))
         ELSE r

\* _extract_anime_data(self, api_response, page)
extract_anime_data(api_response, page) ==
    LET data == DictGetDefault(api_response.data, Val(<<>>)) IN
    IF data.k = "null"
    THEN Raise("TypeError")
    ELSE ExtractLoop(data.v, page, 0, <<>>)

(* ------------------------------ inputs --------------------------------- *)
\* the j-th item of a well-formed response; mal_id is the identifier of the
\* source data, score tells the items of one page apart
RunItem(j) ==
    [mal_id     |-> Val(5000 - j),
     titles     |-> Val(<<[type |-> Val("Default"), title |-> Val("B")]>>),
     title      |-> Val("C"),
     genres     |-> Val(<<[name |-> Val("Action")]>>),
     score      |-> Val(j),
     scored_by  |-> Val(7),
     rank       |-> Val(7),
     popularity |-> Val(7),
     members    |-> Val(7),
     favorites  |-> Val(7)]

\* a parsed 2xx body with n well-formed items under 'data'
RunBody(n) == [data |-> Val([j \in 1..n |-> RunItem(j)])]

\* a parsed 2xx body whose only item has "titles": null
NullTitlesBody == [data |-> Val(<<[RunItem(1) EXCEPT !.titles = Null]>>)]

\* item counts of the bodies a run may receive
BodySizes == {0, PageSize, PageSize + MaxOver}

\* the parsed bodies response.json() may return during a run
RunBodies == {RunBody(n) : n \in BodySizes} \cup {NullTitlesBody}

\* all sequences over S of length at most n
SeqsUpTo(S, n) == UNION {[1..m -> S] : m \in 0..n}

\* entries of an item's 'titles' list: 'type' and 'title' each absent, null
\* or present
TitleEntries ==
    [type  : {Absent, Null, Val("Default"), Val("Japanese")},
     title : {Absent, Null, Val("A"), Val("B")}]

\* an item's 'titles': absent, null, or a list
TitlesValues ==
    {Absent, Null} \cup {Val(l) : l \in SeqsUpTo(TitleEntries, MaxTitles)}

\* an item's fallback 'title'
FallbackValues == {Absent, Null, Val("C")}

\* entries of an item's 'genres' list: 'name' absent, null or present
GenreEntries == [name : {Absent, Null, Val("Action"), Val("Comedy")}]

\* an item's 'genres': absent, null, or a list
GenresValues ==
    {Absent, Null} \cup {Val(l) : l \in SeqsUpTo(GenreEntries, MaxGenres)}

\* an item's score, scored_by, rank, popularity, members, favorites
NumberValues == {Absent, Null, Val(7)}

\* the items given to the extractor on its own: a well-formed item in which
\* the title fields, the genres, or the six numbers take every combination
ExtractItems ==
    {[RunItem(1) EXCEPT !.titles = t, !.title = f] :
        t \in TitlesValues, f \in FallbackValues}
    \cup {[RunItem(1) EXCEPT !.genres = g] : g \in GenresValues}
    \cup {[RunItem(1) EXCEPT !.score = n.score, !.scored_by = n.scored_by,
                             !.rank = n.rank, !.popularity = n.popularity,
                             !.members = n.members, !.favorites = n.favorites] :
            n \in [score : NumberValues, scored_by : NumberValues,
                   rank : NumberValues, popularity : NumberValues,
                   members : NumberValues, favorites : NumberValues]}

\* the bodies given to the extractor on its own
ExtractBodies ==
    {[data |-> Val(<<item>>)] : item \in ExtractItems}
    \cup {[data |-> Absent], [data |-> Null], [data |-> Val(<<>>)]}

(* ------------------------------- state --------------------------------- *)
VARIABLES
    start_page,    \* scrape_range argument
    end_page,      \* scrape_range argument
    page,          \* loop variable of scrape_range, argument of scrape_page
    attempt,       \* loop variable of scrape_page
    pc,            \* "range" | "attempt" | "handle" | "done" | "exited" |
                   \* "crashed"
                   \* (| "extract" | "extracted" for the extractor on its own)
    api_response,  \* data = response.json(): the body given to the extractor
    page_data,     \* what scrape_page returned: Null (None) or Val(records)
    all_data,      \* the accumulator of scrape_range
    raised,        \* "" or the exception that escaped
    log,           \* history: HTTP requests, backoff sleeps, inter-request delays
    fetched,       \* history: per page, how scrape_page ended
    kinds,         \* history: how the attempts of the current scrape_page
                   \* call failed so far, "429" or "transient" each; empty
                   \* again once an attempt is answered 2xx
    report,        \* per page, what scrape_range printed: "found" | "failed"
    exports        \* the files main has written: "csv", "json"

vars == <<start_page, end_page, page, attempt, pc, api_response, page_data,
          all_data, raised, log, fetched, kinds, report, exports>>

\* entries of log
GetEv(p) == [e |-> "get", page |-> p, t |-> 0]
SleepEv(p, t) == [e |-> "sleep", page |-> p, t |-> t]
DelayEv(p) == [e |-> "delay", page |-> p, t |-> 0]

\* values of fetched[p]
NotFetched == [k |-> "none"]
Exhausted == [k |-> "exhausted"]
FetchedOk(body) == [k |-> "ok", body |-> body]

NoBody == [data |-> Absent]

Init ==
    /\ start_page \in 1..MaxPage
    /\ end_page \in 0..MaxPage
    /\ page = start_page
    /\ attempt = 0
    /\ pc = "range"
    /\ api_response = NoBody
    /\ page_data = Null
    /\ all_data = <<>>
    /\ raised = ""
    /\ log = <<>>
    /\ fetched = [p \in 1..MaxPage |-> NotFetched]
    /\ kinds = <<>>
    /\ report = [p \in 1..MaxPage |-> ""]
    /\ exports = {}

(* ----------------------------- scrape_page ----------------------------- *)
\* mutant of wait_time: a backoff that grows linearly
wait_time_linear(n) == 2 * n

\* wait_time = 2 ** attempt
wait_time(n) == 2 ^ n

\* "return None" of scrape_page
ReturnNone ==
    /\ page_data' = Null
    /\ fetched' = [fetched EXCEPT ![page] = Exhausted]
    /\ pc' = "handle"

\* for page in range(start_page, end_page + 1): the first pass, with its
\* call page_data = self.scrape_page(page)
StartPage ==
    /\ pc = "range"
    /\ page = start_page
    /\ page <= end_page
    /\ attempt' = 0
    /\ pc' = "attempt"
    /\ UNCHANGED <<start_page, end_page, page, api_response, page_data,
                   all_data, raised, log, fetched, kinds, report, exports>>

\* mutant of RateLimited: a 429 does not count as an attempt
RateLimitedFreeRetry ==
    /\ pc = "attempt"
    /\ attempt < max_retries
    /\ log' = log \o <<GetEv(page), SleepEv(page, wait_time(attempt))>>
    /\ kinds' = Append(kinds, "429")
    /\ UNCHANGED <<start_page, end_page, page, attempt, pc, api_response,
                   page_data, all_data, raised, fetched, report, exports>>

\* mutant of RateLimited: no sleep after a 429 on the last attempt
RateLimitedNoLastSleep ==
    /\ pc = "attempt"
    /\ attempt < max_retries
    /\ log' = IF attempt < max_retries - 1
              THEN log \o <<GetEv(page), SleepEv(page, wait_time(attempt))>>
              ELSE Append(log, GetEv(page))
    /\ attempt' = attempt + 1
    /\ kinds' = Append(kinds, "429")
    /\ UNCHANGED <<start_page, end_page, page, pc, api_response, page_data,
                   all_data, raised, fetched, report, exports>>

\* an attempt answered with status 429: sleep 2 ** attempt, continue
RateLimited ==
    /\ pc = "attempt"
    /\ attempt < max_retries
    /\ log' = log \o <<GetEv(page), SleepEv(page, wait_time(attempt))>>
    /\ attempt' = attempt + 1
    /\ kinds' = Append(kinds, "429")
    /\ UNCHANGED <<start_page, end_page, page, pc, api_response, page_data,
                   all_data, raised, fetched, report, exports>>

\* mutant of RequestFailed: the backoff sleep also after the last attempt
RequestFailedAlwaysSleeps ==
    /\ pc = "attempt"
    /\ attempt < max_retries
    /\ log' = log \o <<GetEv(page), SleepEv(page, wait_time(attempt))>>
    /\ IF attempt < max_retries - 1
       THEN /\ attempt' = attempt + 1
            /\ UNCHANGED <<pc, page_data, fetched>>
       ELSE /\ page_data' = Null
            /\ fetched' = [fetched EXCEPT ![page] = Exhausted]
            /\ pc' = "handle"
            /\ UNCHANGED attempt
    /\ kinds' = Append(kinds, "transient")
    /\ UNCHANGED <<start_page, end_page, page, api_response, all_data, raised,
                   report, exports>>

\* an attempt that raises a RequestException: session.get (connection error,
\* timeout), raise_for_status (non-2xx status other than 429), or
\* response.json() on an unparseable body (requests.exceptions.JSONDecodeError
\* is a RequestException since requests 2.27); all take the one except branch
RequestFailed ==
    /\ pc = "attempt"
    /\ attempt < max_retries
    /\ IF attempt < max_retries - 1
       THEN /\ log' = log \o <<GetEv(page), SleepEv(page, wait_time(attempt))>>
            /\ attempt' = attempt + 1
            /\ UNCHANGED <<pc, page_data, fetched>>
       ELSE /\ log' = Append(log, GetEv(page))
            /\ ReturnNone
            /\ UNCHANGED attempt
    /\ kinds' = Append(kinds, "transient")
    /\ UNCHANGED <<start_page, end_page, page, api_response, all_data, raised,
                   report, exports>>

\* an attempt answered 2xx with a parseable body that the extractor accepts
Succeeded ==
    /\ pc = "attempt"
    /\ attempt < max_retries
    /\ \E body \in RunBodies :
         LET r == extract_anime_data(body, page) IN
         /\ r.ok
         /\ api_response' = body
         /\ page_data' = Val(r.v)
         /\ fetched' = [fetched EXCEPT ![page] = FetchedOk(body)]
    /\ log' = Append(log, GetEv(page))
    /\ pc' = "handle"
    /\ kinds' = <<>>
    /\ UNCHANGED <<start_page, end_page, page, attempt, all_data, raised,
                   report, exports>>

\* an attempt answered 2xx with a parseable body on which the extractor
\* raises: KeyError and TypeError are no RequestException, the exception
\* leaves scrape_page and scrape_range
ExtractorRaises ==
    /\ pc = "attempt"
    /\ attempt < max_retries
    /\ \E body \in RunBodies :
         LET r == extract_anime_data(body, page) IN
         /\ ~r.ok
         /\ api_response' = body
         /\ raised' = r.err
    /\ log' = Append(log, GetEv(page))
    /\ pc' = "crashed"
    /\ kinds' = <<>>
    /\ UNCHANGED <<start_page, end_page, page, attempt, page_data, all_data,
                   fetched, report, exports>>

\* the for loop of scrape_page ran out (the last attempt was a 429): return None
AttemptsExhausted ==
    /\ pc = "attempt"
    /\ attempt = max_retries
    /\ ReturnNone
    /\ UNCHANGED <<start_page, end_page, page, attempt, api_response,
                   all_data, raised, log, kinds, report, exports>>

(* ----------------------------- scrape_range ---------------------------- *)
\* mutants of Extend: the page put in front of the accumulator; the
\* accumulator replaced by the result of a failed page
ExtendInFront(acc, pd) == IF Truthy(pd) THEN pd.v \o acc ELSE acc
ExtendOrReset(acc, pd) == IF Truthy(pd) THEN acc \o pd.v ELSE <<>>
\* mutant of Extend: the accumulator replaced by the page
ExtendReplace(acc, pd) == IF Truthy(pd) THEN pd.v ELSE acc

\* if page_data: all_data.extend(page_data)
Extend(acc, pd) == IF Truthy(pd) THEN acc \o pd.v ELSE acc

\* mutant of RateLimitDelay: the delay also after the last page
RateLimitDelayAlways(lg, p, last) == IF p <= last THEN Append(lg, DelayEv(p)) ELSE lg

\* if page < end_page: time.sleep(delay)
RateLimitDelay(lg, p, last) == IF p < last THEN Append(lg, DelayEv(p)) ELSE lg

\* mutant of NextPage: after a failed page the loop steps back a page
NextPageBackOnFailure(p, pd) == IF pd.k = "null" /\ p > 1 THEN p - 1 ELSE p + 1

\* the next value of the loop variable of "for page in range(...)"
NextPage(p, pd) == p + 1

\* if page_data: print("  Found ...") else: print("  Failed to scrape page ...")
Report(pd) == IF Truthy(pd) THEN "found" ELSE "failed"

\* the rest of the loop body after scrape_page returned, and the step of the
\* for loop: the next page's scrape_page call, or the end of the loop with
\* "return all_data"
HandlePage ==
    /\ pc = "handle"
    /\ all_data' = Extend(all_data, page_data)
    /\ log' = RateLimitDelay(log, page, end_page)
    /\ page' = NextPage(page, page_data)
    /\ IF page' <= end_page
       THEN pc' = "attempt" /\ attempt' = 0
       ELSE pc' = "done" /\ UNCHANGED attempt
    /\ report' = [report EXCEPT ![page] = Report(page_data)]
    /\ kinds' = <<>>
    /\ UNCHANGED <<start_page, end_page, api_response, page_data, raised,
                   fetched, exports>>

\* an empty range: the loop body never runs, return all_data
Return ==
    /\ pc = "range"
    /\ page > end_page
    /\ pc' = "done"
    /\ UNCHANGED <<start_page, end_page, page, attempt, api_response,
                   page_data, all_data, raised, log, fetched, kinds, report,
                   exports>>

(* --------------------------------- main -------------------------------- *)
\* mutant of Exports: the JSON file written even when nothing was scraped
ExportsJsonAlways(data) == IF Len(data) > 0 THEN {"csv", "json"} ELSE {"json"}

\* if all_anime_data: save_to_csv(...); save_to_json(...)
Exports(data) == IF Len(data) > 0 THEN {"csv", "json"} ELSE {}

\* display_sample_data: len(anime['title']) on the first sample_size = 3
\* records raises TypeError for a title that is None
DisplayRaises(data) ==
    \E i \in 1..Len(data) : i <= 3 /\ data[i].title = Null

\* main after scraper.scrape_range(...) returned all_anime_data
Main ==
    /\ pc = "done"
    /\ exports' = Exports(all_data)
    /\ raised' = IF DisplayRaises(all_data) THEN "TypeError" ELSE raised
    /\ pc' = "exited"
    /\ UNCHANGED <<start_page, end_page, page, attempt, api_response,
                   page_data, all_data, log, fetched, kinds, report>>

Next ==
    \/ StartPage
    \/ RateLimited
    \/ RequestFailed
    \/ Succeeded
    \/ ExtractorRaises
    \/ AttemptsExhausted
    \/ HandlePage
    \/ Return
    \/ Main

Spec == Init /\ [][Next]_vars

(* ---------------------- the extractor on its own ----------------------- *)
InitExtract ==
    /\ start_page = 1
    /\ end_page = 0
    /\ page \in 1..MaxPage
    /\ attempt = 0
    /\ pc = "extract"
    /\ api_response \in ExtractBodies
    /\ page_data = Null
    /\ all_data = <<>>
    /\ raised = ""
    /\ log = <<>>
    /\ fetched = [p \in 1..MaxPage |-> NotFetched]
    /\ kinds = <<>>
    /\ report = [p \in 1..MaxPage |-> ""]
    /\ exports = {}

\* _extract_anime_data(api_response, page) returns scraped_data
ExtractReturns ==
    /\ pc = "extract"
    /\ LET r == extract_anime_data(api_response, page) IN
         /\ r.ok
         /\ page_data' = Val(r.v)
    /\ pc' = "extracted"
    /\ UNCHANGED <<start_page, end_page, page, attempt, api_response, all_data,
                   raised, log, fetched, kinds, report, exports>>

\* _extract_anime_data(api_response, page) raises
ExtractRaises ==
    /\ pc = "extract"
    /\ LET r == extract_anime_data(api_response, page) IN
         /\ ~r.ok
         /\ raised' = r.err
    /\ pc' = "extracted"
    /\ UNCHANGED <<start_page, end_page, page, attempt, api_response, page_data,
                   all_data, log, fetched, kinds, report, exports>>

NextExtract == ExtractReturns \/ ExtractRaises

SpecExtract == InitExtract /\ [][NextExtract]_vars

(* ------------------------- notions of the claims ----------------------- *)
\* the ids of a record sequence, in order
Ids(recs) == [i \in 1..Len(recs) |-> recs[i].id]

\* the items of the body with which page p succeeded
ItemsOf(p) == fetched[p].body.data.v

\* the records extracted from the response with which page p succeeded;
\* nothing for a page that did not succeed
PageRecords(p) ==
    IF fetched[p].k = "ok" THEN extract_anime_data(fetched[p].body, p).v ELSE <<>>

RECURSIVE ConcatPages(_, _)
ConcatPages(lo, hi) ==
    IF lo > hi THEN <<>> ELSE PageRecords(lo) \o ConcatPages(lo + 1, hi)

\* pages 1..3, page 2 exhausted, pages 1 and 3 with 25 items each
GapExample ==
    /\ start_page = 1
    /\ end_page = 3
    /\ fetched[1].k = "ok" /\ Len(ItemsOf(1)) = PageSize
    /\ fetched[2] = Exhausted
    /\ fetched[3].k = "ok" /\ Len(ItemsOf(3)) = PageSize

\* every page of the range succeeded
AllSucceeded == \A p \in start_page..end_page : fetched[p].k = "ok"

\* every page of the range but the last carried exactly 25 items
AllButLastFull ==
    \A p \in start_page..(end_page - 1) :
        fetched[p].k = "ok" => Len(ItemsOf(p)) = PageSize

\* no response carried more than 25 items
NoOversizedPage ==
    \A p \in 1..MaxPage : fetched[p].k = "ok" => Len(ItemsOf(p)) <= PageSize

\* each id smaller than its successor (hence than every later one)
StrictlyIncreasing(ids) ==
    \A i \in 1..(Len(ids) - 1) : ids[i] < ids[i + 1]

\* the requests and backoff sleeps of page p, in order
IsAttemptEvent(ev) == ev.e \in {"get", "sleep"}
PageLog(p) == SelectSeq(log, LAMBDA ev : ev.page = p /\ IsAttemptEvent(ev))

\* the number of HTTP requests issued for page p
GetCount(p) == Cardinality({i \in 1..Len(log) : log[i] = GetEv(p)})

\* positions of the inter-request delays in the log
DelayPositions == {i \in 1..Len(log) : log[i].e = "delay"}

\* the page numbers of the HTTP requests, in order
RequestedPages ==
    LET gets == SelectSeq(log, LAMBDA ev : ev.e = "get")
    IN  [i \in 1..Len(gets) |-> gets[i].page]

\* the durations of the backoff sleeps of page p, in order
RECURSIVE SleepTimes(_)
SleepTimes(pl) ==
    IF pl = <<>> THEN <<>>
    ELSE IF Head(pl).e = "sleep"
         THEN <<Head(pl).t>> \o SleepTimes(Tail(pl))
         ELSE SleepTimes(Tail(pl))

\* the sum of a sequence of numbers
RECURSIVE SumSeq(_)
SumSeq(q) == IF q = <<>> THEN 0 ELSE Head(q) + SumSeq(Tail(q))

\* the page being handled ran out of attempts, the last of them failing as kind
ExhaustedBy(kind) ==
    /\ pc = "handle"
    /\ Len(kinds) = max_retries
    /\ kinds[max_retries] = kind

\* s is an initial part of t
IsPrefix(s, t) == Len(s) <= Len(t) /\ \A i \in 1..Len(s) : s[i] = t[i]

\* the positions of the entries of an item's titles list with type "Default"
DefaultPositions(titles) ==
    {i \in 1..Len(titles) : titles[i].type = Val("Default")}

\* the least element of a non-empty set of numbers
Least(S) == CHOOSE i \in S : \A j \in S : i <= j

(* -------------------------------- claims ------------------------------- *)
\* C1: what scrape_range returns is the concatenation, in ascending page
\* order, of the records extracted from the pages that succeeded, with
\* nothing for an exhausted page; in the example of pages 1..3 with page 2
\* exhausted the result has 50 records, ids 1..25 then 51..75.
C1_ReturnIsConcatenation ==
    pc = "done" =>
        /\ all_data = ConcatPages(start_page, end_page)
        /\ GapExample =>
             /\ Len(all_data) = 2 * PageSize
             /\ \A i \in 1..PageSize : all_data[i].id = i
             /\ \A i \in (PageSize + 1)..(2 * PageSize) :
                    all_data[i].id = i + PageSize

C1_Witness == pc = "done" /\ GapExample

\* C2: the records scrape_page returns for a successful page p with k items
\* have the ids (p-1)*25+1 .. (p-1)*25+k in ascending order, one record per
\* item in the order of the response, whatever identifier the items carry.
C2_PageIds ==
    (pc = "handle" /\ fetched[page].k = "ok") =>
        /\ page_data.k = "val"
        /\ Len(page_data.v) = Len(ItemsOf(page))
        /\ \A i \in 1..Len(page_data.v) :
             /\ page_data.v[i].id = (page - 1) * 25 + i
             /\ page_data.v[i].score = ItemsOf(page)[i].score

C2_Witness ==
    /\ pc = "handle"
    /\ page = 2
    /\ fetched[page].k = "ok"
    /\ Len(page_data.v) = PageSize
    /\ page_data.v[PageSize].id = 50
    /\ ItemsOf(page)[PageSize].mal_id.v # 50

\* C3 as stated: the ids in the accumulator are positive and strictly
\* increasing (hence pairwise distinct) in every reachable state, for
\* responses with any number of items.
C3_AnyItemCount ==
    /\ \A i \in 1..Len(all_data) : all_data[i].id > 0
    /\ StrictlyIncreasing(Ids(all_data))

\* C3 amended: the ids in the accumulator are positive and strictly
\* increasing in every reachable state, for responses with at most 25 items.
C3_IdsIncreasing ==
    NoOversizedPage =>
        /\ \A i \in 1..Len(all_data) : all_data[i].id > 0
        /\ StrictlyIncreasing(Ids(all_data))

C3_Witness ==
    /\ NoOversizedPage
    /\ fetched[1].k = "ok" /\ Len(ItemsOf(1)) = PageSize
    /\ fetched[2].k = "ok" /\ Len(ItemsOf(2)) = 0
    /\ fetched[3].k = "ok" /\ Len(ItemsOf(3)) = PageSize
    /\ Len(all_data) = 2 * PageSize
    /\ all_data[PageSize].id = PageSize
    /\ all_data[PageSize + 1].id = 2 * PageSize + 1

C5_BackoffThenSuccess ==
    (pc = "handle" /\ fetched[page].k = "ok") =>
        LET k == attempt
            pl == PageLog(page)
        IN  /\ k < max_retries
            /\ Len(pl) = 2 * k + 1
            /\ \A j \in 0..k : pl[2 * j + 1] = GetEv(page)
            /\ \A j \in 0..(k - 1) : pl[2 * j + 2] = SleepEv(page, 2 ^ j)
            /\ page_data = Val(extract_anime_data(api_response, page).v)
            /\ api_response = fetched[page].body

C5_Witness ==
    /\ pc = "handle"
    /\ fetched[page].k = "ok"
    /\ attempt = 2
    /\ PageLog(page) = <<GetEv(page), SleepEv(page, 1), GetEv(page),
                         SleepEv(page, 2), GetEv(page)>>
    /\ Len(page_data.v) = PageSize

\* C6: a page whose max_retries attempts all fail makes scrape_page return
\* no result; scrape_range then goes on to the next page without raising, and
\* the accumulator after handling the failed page is the accumulator before.
C6_AttemptsAllFailed ==
    /\ GetCount(page) <= max_retries
    /\ (pc = "attempt" /\ attempt = max_retries) => GetCount(page) = max_retries
    /\ (pc = "handle" /\ fetched[page] = Exhausted) =>
           /\ page_data = Null
           /\ GetCount(page) = max_retries

C6_Step ==
    /\ (pc = "attempt" /\ attempt = max_retries) =>
           (pc' = "handle" /\ page_data' = Null /\ fetched'[page] = Exhausted)
    /\ (pc = "attempt" /\ attempt = max_retries - 1 /\ fetched'[page].k # "ok"
          /\ raised' = "") =>
           \/ pc' = "handle" /\ page_data' = Null /\ fetched'[page] = Exhausted
           \/ pc' = "attempt" /\ attempt' = max_retries
    /\ (pc = "handle" /\ page_data = Null) =>
           /\ all_data' = all_data
           /\ raised' = ""
           /\ page' = page + 1
           /\ IF page < end_page
              THEN pc' = "attempt" /\ attempt' = 0
              ELSE pc' = "done"

C6_ExhaustedPageSkipped == []C6_AttemptsAllFailed /\ [][C6_Step]_vars

C6_Witness ==
    /\ pc = "attempt"
    /\ page = 3
    /\ fetched[2] = Exhausted
    /\ fetched[1].k = "ok"
    /\ Len(all_data) = PageSize
    /\ all_data = PageRecords(1)

\* C7: whatever the outcome of an attempt (429, transport error or timeout,
\* other non-2xx status, unparseable 2xx body, 2xx body whose items have
\* absent or null subfields), scrape_page ends by returning a record
\* sequence or no result: no error escapes to scrape_range.
C7_NoErrorEscapes == raised = "" /\ pc # "crashed"

\* C8: the extractor never fails on an item whose optional subfields are
\* absent or null (titles, title, genres and the six numbers each absent,
\* null or present, title variants and genre entries possibly without their
\* type, title or name): it produces a record whose missing values are null
\* and whose genres are the empty string when there are none.
C8_ExtractorNeverFails ==
    (pc = "extracted" /\ api_response.data.k = "val") =>
        /\ raised = ""
        /\ page_data.k = "val"
        /\ Len(page_data.v) = Len(api_response.data.v)
        /\ \A i \in 1..Len(page_data.v) :
             LET anime == api_response.data.v[i]
                 rec == page_data.v[i]
             IN  /\ anime.score.k # "val" => rec.score = Null
                 /\ anime.scored_by.k # "val" => rec.scored_by = Null
                 /\ anime.rank.k # "val" => rec.rank = Null
                 /\ anime.popularity.k # "val" => rec.popularity = Null
                 /\ anime.members.k # "val" => rec.members = Null
                 /\ anime.favorites.k # "val" => rec.favorites = Null
                 /\ (anime.titles.k # "val" /\ anime.title.k # "val") =>
                        rec.title = Null
                 /\ anime.genres.k # "val" => rec.genres = ""

\* C9: exactly one inter-request delay occurs after page p is finished and
\* before the first request of page p+1, for every p in
\* start_page..end_page-1, whether page p succeeded or was exhausted; none
\* occurs after page end_page; a run performs end_page - start_page delays.
C9_DelayBetweenPages ==
    /\ \A i \in DelayPositions :
         /\ log[i].page \in start_page..(end_page - 1)
         /\ fetched[log[i].page].k \in {"ok", "exhausted"}
         /\ i > 1
         /\ IsAttemptEvent(log[i - 1]) /\ log[i - 1].page = log[i].page
         /\ i < Len(log) => log[i + 1] = GetEv(log[i].page + 1)
    /\ \A i \in 2..Len(log) :
         (log[i].e = "get" /\ log[i - 1].page # log[i].page) =>
             log[i - 1] = DelayEv(log[i].page - 1)
    /\ \A p \in start_page..(end_page - 1) :
         p < page => Cardinality({i \in DelayPositions : log[i].page = p}) = 1
    /\ pc = "done" =>
         Cardinality(DelayPositions) =
             IF start_page <= end_page THEN end_page - start_page ELSE 0

C9_Witness ==
    /\ pc = "done"
    /\ end_page - start_page = 2
    /\ fetched[start_page] = Exhausted
    /\ fetched[start_page + 1].k = "ok"
    /\ Cardinality(DelayPositions) = 2
    /\ log[Len(log)].e = "get"

\* C10: the page numbers of the HTTP requests never decrease and cover
\* start_page..end_page in ascending order: after a request for page q no
\* request for a smaller page is issued, so an exhausted page is not retried
\* later and a failure never causes a request for an earlier page.
C10_RequestsAscending ==
    LET rp == RequestedPages IN
    /\ \A i \in 1..Len(rp) : \A j \in 1..Len(rp) : i < j => rp[i] <= rp[j]
    /\ \A i \in 1..Len(rp) : rp[i] \in start_page..end_page
    /\ Len(rp) > 0 => rp[1] = start_page
    /\ \A i \in 1..(Len(rp) - 1) : rp[i + 1] \in {rp[i], rp[i] + 1}
    /\ \A p \in 1..MaxPage : fetched[p] = Exhausted =>
           \A i \in 1..Len(log) :
               (log[i] = GetEv(p)) =>
                   \A j \in 1..i : log[j].page = p => IsAttemptEvent(log[j])
    /\ pc = "done" => {rp[i] : i \in 1..Len(rp)} = start_page..end_page

C10_Witness ==
    /\ pc = "done"
    /\ start_page = 1 /\ end_page = 3
    /\ fetched[1] = Exhausted
    /\ fetched[2] = Exhausted
    /\ fetched[3].k = "ok"
    /\ RequestedPages = <<1, 1, 1, 2, 2, 2, 3>>

\* C11: title resolution is first-match: the record's title is the title of
\* the first entry of the titles list whose type is "Default"; without such
\* an entry it is the item's fallback title, and null if that is absent too.
C11_FirstMatchTitle ==
    (pc = "extracted" /\ raised = "" /\ api_response.data.k = "val") =>
        \A i \in 1..Len(page_data.v) :
            LET anime == api_response.data.v[i]
                titles == IF anime.titles.k = "val" THEN anime.titles.v ELSE <<>>
                defaults == DefaultPositions(titles)
            IN  IF defaults # {}
                THEN page_data.v[i].title = DictGet(titles[Least(defaults)].title)
                ELSE page_data.v[i].title =
                         (IF anime.title.k = "val" THEN anime.title ELSE Null)

C11_Witness ==
    /\ pc = "extracted"
    /\ raised = ""
    /\ api_response.data.k = "val"
    /\ Len(api_response.data.v) = 1
    /\ api_response.data.v[1].titles =
           Val(<<[type |-> Val("Default"), title |-> Val("A")],
                 [type |-> Val("Default"), title |-> Val("B")]>>)
    /\ page_data.v[1].title = Val("A")

\* C13: the attempts of one page share one budget: a page gets at most
\* max_retries requests, one per attempt whatever the kind of failure; the
\* first success is the page's last request; scrape_page returns no result
\* exactly when max_retries attempts failed.
C13_SharedAttemptBudget ==
    /\ \A p \in 1..MaxPage : GetCount(p) <= max_retries
    /\ pc = "attempt" =>
           /\ attempt <= max_retries
           /\ GetCount(page) = attempt
           /\ Len(kinds) = attempt
    /\ (pc = "crashed" \/ (pc = "handle" /\ fetched[page].k = "ok")) =>
           /\ GetCount(page) = attempt + 1
           /\ attempt < max_retries
           /\ PageLog(page)[Len(PageLog(page))] = GetEv(page)
    /\ pc = "handle" =>
           (page_data = Null <=>
                (Len(kinds) = max_retries /\ GetCount(page) = max_retries))

C13_Witness ==
    /\ pc = "handle"
    /\ page_data = Null
    /\ kinds = <<"429", "transient", "429">>
    /\ GetCount(page) = max_retries

\* C14: a handled page is reported as failed exactly when scrape_page
\* returned no result for it; a page that returned a result, a result of zero
\* records included, is reported on the success path.
C14_FailedIffNoResult ==
    \A p \in 1..MaxPage :
        report[p] # "" => (report[p] = "failed" <=> fetched[p] = Exhausted)

\* C15: when the last permitted attempt fails with a transient error,
\* scrape_page returns None at once, without a sleep after that failure; a
\* page whose three attempts all fail with transient errors sleeps 1, then 2.
C15_NoSleepAfterLastTransient ==
    ExhaustedBy("transient") =>
        LET pl == PageLog(page) IN
        /\ page_data = Null
        /\ attempt = max_retries - 1
        /\ pl[Len(pl)] = GetEv(page)
        /\ SleepTimes(pl) = <<1, 2>>
        /\ kinds = <<"transient", "transient", "transient">> =>
               pl = <<GetEv(page), SleepEv(page, 1), GetEv(page),
                      SleepEv(page, 2), GetEv(page)>>

C15_Witness ==
    /\ pc = "handle"
    /\ kinds = <<"transient", "transient", "transient">>
    /\ page_data = Null
    /\ SumSeq(SleepTimes(PageLog(page))) = 3

\* C18: a 429 on the last permitted attempt still sleeps 2^(max_retries-1)
\* before scrape_page returns None: a page answered 429 three times sleeps
\* 1, 2 and 4, 7 in all, where three transient errors sleep 3 in all.
C18_SleepAfterLast429 ==
    /\ ExhaustedBy("429") =>
           LET pl == PageLog(page) IN
           /\ page_data = Null
           /\ attempt = max_retries
           /\ pl[Len(pl)] = SleepEv(page, 2 ^ (max_retries - 1))
           /\ SleepTimes(pl) = <<1, 2, 4>>
           /\ SumSeq(SleepTimes(pl)) = 7
    /\ ExhaustedBy("transient") => SumSeq(SleepTimes(PageLog(page))) = 3

C18_Witness ==
    /\ pc = "handle"
    /\ kinds = <<"429", "429", "429">>
    /\ page_data = Null
    /\ PageLog(page) = <<GetEv(page), SleepEv(page, 1), GetEv(page),
                         SleepEv(page, 2), GetEv(page), SleepEv(page, 4)>>

\* C16: the accumulator of scrape_range is append-only: in every step of a
\* run its value before the step is an initial part of its value after.
C16_AppendOnly == [][IsPrefix(all_data, all_data')]_vars

C16_Witness ==
    /\ pc = "attempt"
    /\ page = 3
    /\ fetched[1].k = "ok"
    /\ fetched[2].k = "ok"
    /\ Len(all_data) = 2 * PageSize
    /\ SubSeq(all_data, 1, PageSize) = PageRecords(1)

\* every page of the range ran out of attempts
AllExhausted == \A p \in start_page..end_page : fetched[p] = Exhausted

\* C17: a run in which every page runs out of attempts returns the empty
\* sequence and raises nothing; main writes the CSV and the JSON export
\* exactly when the returned sequence is non-empty, both or neither.
C17_EmptyResultNoExport ==
    /\ (pc \in {"done", "exited"} /\ AllExhausted) =>
           (all_data = <<>> /\ raised = "")
    /\ exports \in {{}, {"csv", "json"}}
    /\ pc = "exited" => (exports = {"csv", "json"} <=> all_data # <<>>)
    /\ pc # "exited" => exports = {}

C17_Witness ==
    /\ pc = "exited"
    /\ start_page < end_page
    /\ AllExhausted
    /\ all_data = <<>>
    /\ exports = {}

\* the number of HTTP requests issued in the run
RequestCount == Cardinality({i \in 1..Len(log) : log[i].e = "get"})

\* C19: for every range and every sequence of attempt outcomes scrape_range
\* returns: a run that has not returned can take a step, and it issues at
\* most max_retries requests per page of the range; an empty range returns
\* the empty sequence with no request and no sleep.
C19_ReturnsWithinBudget ==
    /\ pc \in {"done", "exited"} \/ ENABLED Next
    /\ start_page <= end_page =>
           RequestCount <= max_retries * (end_page - start_page + 1)
    /\ start_page > end_page => (log = <<>> /\ all_data = <<>>)

====
